---- MODULE Spec2Model ----
(***************************************************************************)
(* Model of apps/api/scripts/generate-card-pdf.py: the layout selector,    *)
(* the card renderer, the cut guides and the pagination driver, run as the *)
(* single sequential program that main() starts.                           *)
(*                                                                         *)
(* The drawing surface (reportlab's Canvas) is modelled by the part of its *)
(* state the program sets (fill colour, stroke colour, dash pattern, page  *)
(* number) and by the log of the marks, page breaks and dash changes it    *)
(* was asked for.  Fonts, line widths and the coordinates of single marks  *)
(* are not tracked.  All lengths are in points; every length the program   *)
(* computes is a whole number of points.                                   *)
(***************************************************************************)
EXTENDS Integers, Sequences, FiniteSets

\* ------------------------------------------------------------------ bounds
MaxQuantity == 9
MaxMixed == 2
MaxOrder == 1
MaxRepeat == 16

\* --------------------------------------------------------------- constants
PAGE_HEIGHT == 792
MARGIN == 18
CHECKBOX_SIZE == 18
NUMBER_BOX_HEIGHT == 24
SCALE_BOX_SIZE == 24
LINE_HEIGHT == 18

BLACK == "black"
GRAY == "gray"

LAYOUTS ==
  [quarter |-> [cols |-> 2, rows |-> 2, width |-> 306, height |-> 396],
   half    |-> [cols |-> 1, rows |-> 2, width |-> 612, height |-> 396],
   full    |-> [cols |-> 1, rows |-> 1, width |-> 612, height |-> 792]]

LayoutNames == {"quarter", "half", "full"}
LayoutArgs == LayoutNames \cup {"auto"}
Kinds == {"checkbox", "number", "scale", "text"}

\* ------------------------------------------------------------------ inputs
\* An item of the input JSON.  hasType / hasOrder say whether the key is
\* present; unit is "" when the key is absent or empty (both falsy).
Shapes ==
  {[hasType |-> TRUE, type |-> "checkbox", unit |-> "", hasNotes |-> FALSE],
   [hasType |-> TRUE, type |-> "number", unit |-> "", hasNotes |-> FALSE],
   [hasType |-> TRUE, type |-> "number", unit |-> "kg", hasNotes |-> FALSE],
   [hasType |-> TRUE, type |-> "scale", unit |-> "", hasNotes |-> FALSE],
   [hasType |-> TRUE, type |-> "scale", unit |-> "", hasNotes |-> TRUE],
   [hasType |-> TRUE, type |-> "text", unit |-> "", hasNotes |-> FALSE],
   [hasType |-> TRUE, type |-> "photo", unit |-> "", hasNotes |-> FALSE],
   [hasType |-> FALSE, type |-> "", unit |-> "", hasNotes |-> FALSE]}

Orders ==
  {[hasOrder |-> FALSE, order |-> 0]}
    \cup {[hasOrder |-> TRUE, order |-> o] : o \in 0..MaxOrder}

MkItem(s, o) ==
  [hasType |-> s.hasType, type |-> s.type, unit |-> s.unit,
   hasNotes |-> s.hasNotes, hasOrder |-> o.hasOrder, order |-> o.order]

ItemChoices == {MkItem(s, o) : s \in Shapes, o \in Orders}

SeqsUpTo(S, n) == UNION {[1..k -> S] : k \in 0..n}

Repeat(f, n) == [k \in 1..n |-> f]

NoOrder == [hasOrder |-> FALSE, order |-> 0]

\* The smallest and the largest recognised item, to fill a card with.
Fillers ==
  {MkItem([hasType |-> TRUE, type |-> "checkbox", unit |-> "", hasNotes |-> FALSE], NoOrder),
   MkItem([hasType |-> TRUE, type |-> "scale", unit |-> "", hasNotes |-> TRUE], NoOrder)}

MkData(hn, hi, its, hq, q) ==
  [hasName |-> hn, hasItems |-> hi, items |-> its, hasQuantity |-> hq, quantity |-> q]

\* Many cards of a routine of at most one item.
PaginationInputs ==
  {<<MkData(TRUE, TRUE, its, TRUE, q), l>> :
     its \in SeqsUpTo(ItemChoices, 1), q \in 0..MaxQuantity, l \in LayoutArgs}
    \cup {<<MkData(TRUE, TRUE, its, FALSE, 0), l>> :
            its \in SeqsUpTo(ItemChoices, 1), l \in LayoutArgs}

\* One card of every short routine.
MixedInputs ==
  {<<MkData(TRUE, TRUE, its, TRUE, 1), "auto">> : its \in SeqsUpTo(ItemChoices, MaxMixed)}

\* One card of a long routine: any item, then copies of a filler.
LongInputs ==
  {<<MkData(TRUE, TRUE, p \o Repeat(f, n), TRUE, 1), l>> :
     p \in SeqsUpTo(ItemChoices, 1), f \in Fillers, n \in 1..MaxRepeat, l \in LayoutArgs}

\* Inputs without 'name' or without 'items'.
InvalidInputs ==
  {<<MkData(FALSE, TRUE, its, TRUE, 1), l>> : its \in SeqsUpTo(ItemChoices, 1), l \in LayoutArgs}
    \cup {<<MkData(hn, FALSE, <<>>, TRUE, 1), l>> : hn \in BOOLEAN, l \in LayoutArgs}

Inputs == PaginationInputs \cup MixedInputs \cup LongInputs \cup InvalidInputs

\* ---------------------------------------------------------- pure functions
\* Variant: the first threshold taken strictly.
suggest_layout_off(item_count) ==
  IF item_count < 8 THEN "quarter"
  ELSE IF item_count <= 15 THEN "half"
  ELSE "full"

suggest_layout(item_count) ==
  IF item_count <= 8 THEN "quarter"
  ELSE IF item_count <= 15 THEN "half"
  ELSE "full"

\* Variant: the quotient rounded down.
total_pages_floor(quantity, cards_per_page) ==
  quantity \div cards_per_page

total_pages_of(quantity, cards_per_page) ==
  (quantity + cards_per_page - 1) \div cards_per_page

\* Variant: row and column exchanged.
card_origin_colmajor(layout_config, row, col) ==
  <<row * layout_config.width, PAGE_HEIGHT - (col + 1) * layout_config.height>>

card_origin(layout_config, row, col) ==
  <<col * layout_config.width, PAGE_HEIGHT - (row + 1) * layout_config.height>>

\* key=lambda x: x.get('order', 0)
order_key(item) == IF item.hasOrder THEN item.order ELSE 0

RECURSIVE InsertStable(_, _, _)
InsertStable(s, k, items) ==
  IF s = <<>> THEN <<k>>
  ELSE IF order_key(items[Head(s)]) <= order_key(items[k])
       THEN <<Head(s)>> \o InsertStable(Tail(s), k, items)
       ELSE <<k>> \o s

RECURSIVE SortPrefix(_, _)
SortPrefix(items, n) ==
  IF n = 0 THEN <<>> ELSE InsertStable(SortPrefix(items, n - 1), n, items)

\* Variant: the input order, unsorted.
sorted_items_unsorted(items) == [k \in 1..Len(items) |-> k]

\* sorted(items, key=order): the positions of the input array, in the order
\* Python's stable sort visits them.
sorted_items(items) == SortPrefix(items, Len(items))

\* ------------------------------------------------------- the drawing rules
\* Each rule is the sequence of canvas calls it makes and its total advance
\* of the cursor current_y.
Times(n, ops) == IF n <= 0 THEN <<>> ELSE
  LET RECURSIVE T(_)
      T(k) == IF k = 0 THEN <<>> ELSE ops \o T(k - 1)
  IN T(n)

draw_alignment_markers ==
  <<<<"setFillColor", BLACK>>>> \o Times(4, <<<<"circle", "marker">>>>)

draw_header ==
  [ops |-> << <<"setFillColor", BLACK>>, <<"drawString", "title">>,
              <<"drawString", "date">>, <<"setStrokeColor", GRAY>>,
              <<"line", "separator">>, <<"setStrokeColor", BLACK>> >>,
   advance |-> 14 + 10 + 15]

draw_checkbox_item(item) ==
  [ops |-> << <<"setStrokeColor", BLACK>>, <<"rect", "box">>,
              <<"setFillColor", BLACK>>, <<"drawString", "name">> >>,
   advance |-> CHECKBOX_SIZE + 8]

draw_number_item(item) ==
  [ops |-> << <<"setFillColor", BLACK>>, <<"drawString", "name">>,
              <<"setStrokeColor", BLACK>>, <<"rect", "box">> >>
           \o (IF item.unit # ""
               THEN << <<"setFillColor", GRAY>>, <<"drawString", "unit">>,
                       <<"setFillColor", BLACK>> >>
               ELSE <<>>),
   advance |-> 18 + (NUMBER_BOX_HEIGHT + 12)]

draw_scale_item(item) ==
  [ops |-> << <<"setFillColor", BLACK>>, <<"drawString", "name">>,
              <<"setStrokeColor", BLACK>> >>
           \o Times(5, << <<"rect", "scalebox">>, <<"setFillColor", GRAY>>,
                          <<"drawCentredString", "scalelabel">>,
                          <<"setFillColor", BLACK>> >>)
           \o (IF item.hasNotes
               THEN << <<"setFillColor", GRAY>>, <<"drawString", "notes">>,
                       <<"setFillColor", BLACK>>, <<"setStrokeColor", GRAY>>,
                       <<"line", "notesline">>, <<"setStrokeColor", BLACK>> >>
               ELSE <<>>),
   advance |-> 22 + (SCALE_BOX_SIZE + 8) + (IF item.hasNotes THEN 16 ELSE 0)]

\* Variant: the stroke colour is left gray after the two lines.
draw_text_item_noreset(item) ==
  [ops |-> << <<"setFillColor", BLACK>>, <<"drawString", "name">>,
              <<"setStrokeColor", GRAY>> >>
           \o Times(2, <<<<"line", "textline">>>>),
   advance |-> 18 + 2 * LINE_HEIGHT]

draw_text_item(item) ==
  [ops |-> << <<"setFillColor", BLACK>>, <<"drawString", "name">>,
              <<"setStrokeColor", GRAY>> >>
           \o Times(2, <<<<"line", "textline">>>>)
           \o << <<"setStrokeColor", BLACK>> >>,
   advance |-> 18 + 2 * LINE_HEIGHT]

draw_version ==
  << <<"setFillColor", GRAY>>, <<"drawRightString", "version">>,
     <<"setFillColor", BLACK>> >>

\* Variant: the guide loops start at 0 instead of 1.
cut_guide_ops_every_cell(layout_config) ==
  << <<"setStrokeColor", GRAY>>, <<"setDash", TRUE>> >>
    \o Times(layout_config.cols, <<<<"line", "vguide">>>>)
    \o Times(layout_config.rows, <<<<"line", "hguide">>>>)
    \o << <<"setDash", FALSE>> >>

draw_cut_guides(layout_config) ==
  << <<"setStrokeColor", GRAY>>, <<"setDash", TRUE>> >>
    \o Times(layout_config.cols - 1, <<<<"line", "vguide">>>>)
    \o Times(layout_config.rows - 1, <<<<"line", "hguide">>>>)
    \o << <<"setDash", FALSE>> >>

\* Variant: the chain ends in an else branch that draws a checkbox.
dispatch_else_checkbox(item) ==
  IF item.type = "number" THEN draw_number_item(item)
  ELSE IF item.type = "scale" THEN draw_scale_item(item)
  ELSE IF item.type = "text" THEN draw_text_item(item)
  ELSE draw_checkbox_item(item)

\* The if/elif chain of _draw_items: the rule of a recognised kind, and
\* nothing at all for any other kind.
dispatch(item) ==
  IF item.type = "checkbox" THEN draw_checkbox_item(item)
  ELSE IF item.type = "number" THEN draw_number_item(item)
  ELSE IF item.type = "scale" THEN draw_scale_item(item)
  ELSE IF item.type = "text" THEN draw_text_item(item)
  ELSE [ops |-> <<>>, advance |-> 0]

\* -------------------------------------------------------------- the canvas
NewCanvas ==
  [fill |-> BLACK, stroke |-> BLACK, dash |-> FALSE, pageNumber |-> 1, log |-> <<>>]

Marks == {"circle", "rect", "line", "drawString", "drawCentredString", "drawRightString"}

Entry(cv, op, what, ctx) ==
  [op |-> op, what |-> what, card |-> ctx.card, item |-> ctx.item, at |-> ctx.at,
   page |-> cv.pageNumber, dash |-> cv.dash]

\* One canvas call.  showPage ends the page and starts the next one with
\* the graphics state of a fresh page.
Call(cv, o, ctx) ==
  IF o[1] = "setFillColor" THEN [cv EXCEPT !.fill = o[2]]
  ELSE IF o[1] = "setStrokeColor" THEN [cv EXCEPT !.stroke = o[2]]
  ELSE IF o[1] = "setDash"
       THEN LET d == [cv EXCEPT !.dash = o[2]]
            IN [d EXCEPT !.log = Append(cv.log, Entry(d, "setDash", "dash", ctx))]
  ELSE IF o[1] = "showPage"
       THEN LET n == [cv EXCEPT !.fill = BLACK, !.stroke = BLACK, !.dash = FALSE,
                                !.pageNumber = cv.pageNumber + 1]
            IN [n EXCEPT !.log = Append(cv.log, Entry(n, "showPage", "page", ctx))]
  ELSE [cv EXCEPT !.log = Append(cv.log, Entry(cv, o[1], o[2], ctx))]

RECURSIVE Exec(_, _, _)
Exec(cv, ops, ctx) ==
  IF ops = <<>> THEN cv ELSE Exec(Call(cv, Head(ops), ctx), Tail(ops), ctx)

PageCtx == [card |-> -1, item |-> 0, at |-> <<0, 0>>]

\* ------------------------------------------------------------------- state
VARIABLES
  pc,           \* where the program is
  data,         \* the decoded input JSON
  args_layout,  \* --layout
  layout,       \* main: the layout chosen
  quantity,     \* main: data.get('quantity', 1)
  routine,      \* main: the routine object handed to generate_pdf
  total_pages,  \* generate_pdf
  page,         \* generate_pdf: loop variables
  row,
  col,
  card_index,   \* generate_pdf: cards rendered so far
  renderer,     \* the CardRenderer of the card being drawn: x, y, current_y
  sorted,       \* _draw_items: the sorted items, as positions of the input
  i,            \* _draw_items: position of the loop in sorted
  c,            \* the canvas
  result        \* what generate_pdf returned

vars == <<pc, data, args_layout, layout, quantity, routine, total_pages, page,
          row, col, card_index, renderer, sorted, i, c, result>>

layout_config == LAYOUTS[layout]
cards_per_page == layout_config.cols * layout_config.rows

\* min_y of _draw_items: 20 points above the bottom margin are left for the
\* version stamp.
min_y == renderer.y + MARGIN + 20

CardCtx(item) == [card |-> card_index, item |-> item, at |-> <<renderer.x, renderer.y>>]

NoResult == [layout |-> "", cards_per_page |-> 0, pages_generated |-> 0, cards_generated |-> 0]

Init ==
  /\ \E in \in Inputs : data = in[1] /\ args_layout = in[2]
  /\ pc = "main"
  /\ layout = "quarter"
  /\ quantity = 0
  /\ routine = [items |-> <<>>]
  /\ total_pages = 0
  /\ page = 0
  /\ row = 0
  /\ col = 0
  /\ card_index = 0
  /\ renderer = [x |-> 0, y |-> 0, current_y |-> 0]
  /\ sorted = <<>>
  /\ i = 0
  /\ c = NewCanvas
  /\ result = NoResult

\* ----------------------------------------------------------------- actions
\* main: data['name'] or data['items'] raises KeyError.
MainKeyError ==
  /\ pc = "main"
  /\ ~data.hasName \/ ~data.hasItems
  /\ pc' = "error"
  /\ UNCHANGED <<data, args_layout, layout, quantity, routine, total_pages, page,
                 row, col, card_index, renderer, sorted, i, c, result>>

\* main: read the input, choose the layout, build the routine object.
Main ==
  /\ pc = "main"
  /\ data.hasName /\ data.hasItems
  /\ quantity' = IF data.hasQuantity THEN data.quantity ELSE 1
  /\ layout' = IF args_layout = "auto" THEN suggest_layout(Len(data.items)) ELSE args_layout
  /\ routine' = [items |-> data.items]
  /\ pc' = "generate"
  /\ UNCHANGED <<data, args_layout, total_pages, page, row, col, card_index,
                 renderer, sorted, i, c, result>>

\* generate_pdf up to the page loop.
GeneratePdf ==
  /\ pc = "generate"
  /\ total_pages' = total_pages_of(quantity, cards_per_page)
  /\ c' = NewCanvas
  /\ card_index' = 0
  /\ page' = 0
  /\ pc' = "page"
  /\ UNCHANGED <<data, args_layout, layout, quantity, routine, row, col,
                 renderer, sorted, i, result>>

\* One turn of the page loop up to the cell loops: a new physical page for
\* every page but the first, then the cut guides.
StartPage ==
  /\ pc = "page"
  /\ page < total_pages
  /\ c' = Exec(c, (IF page > 0 THEN <<<<"showPage", "page">>>> ELSE <<>>)
                    \o draw_cut_guides(layout_config), PageCtx)
  /\ row' = 0
  /\ col' = 0
  /\ pc' = "cell"
  /\ UNCHANGED <<data, args_layout, layout, quantity, routine, total_pages, page,
                 card_index, renderer, sorted, i, result>>

\* The page loop is over: c.save() and the summary.
Save ==
  /\ pc = "page"
  /\ page >= total_pages
  /\ result' = [layout |-> layout, cards_per_page |-> cards_per_page,
                pages_generated |-> total_pages, cards_generated |-> quantity]
  /\ pc' = "done"
  /\ UNCHANGED <<data, args_layout, layout, quantity, routine, total_pages, page,
                 row, col, card_index, renderer, sorted, i, c>>

\* A cell that gets a card: CardRenderer(...).
NewCard ==
  /\ pc = "cell"
  /\ row < layout_config.rows /\ col < layout_config.cols
  /\ card_index < quantity
  /\ LET o == card_origin(layout_config, row, col)
     IN renderer' = [x |-> o[1], y |-> o[2],
                     current_y |-> o[2] + layout_config.height - MARGIN]
  /\ pc' = "markers"
  /\ UNCHANGED <<data, args_layout, layout, quantity, routine, total_pages, page,
                 row, col, card_index, sorted, i, c, result>>

\* card_index >= quantity: break out of the column loop.
BreakRow ==
  /\ pc = "cell"
  /\ row < layout_config.rows /\ col < layout_config.cols
  /\ card_index >= quantity
  /\ row' = row + 1
  /\ col' = 0
  /\ UNCHANGED <<pc, data, args_layout, layout, quantity, routine, total_pages, page,
                 card_index, renderer, sorted, i, c, result>>

\* The column loop is exhausted.
EndRow ==
  /\ pc = "cell"
  /\ row < layout_config.rows /\ col >= layout_config.cols
  /\ row' = row + 1
  /\ col' = 0
  /\ UNCHANGED <<pc, data, args_layout, layout, quantity, routine, total_pages, page,
                 card_index, renderer, sorted, i, c, result>>

\* The row loop is exhausted.
EndPage ==
  /\ pc = "cell"
  /\ row >= layout_config.rows
  /\ page' = page + 1
  /\ pc' = "page"
  /\ UNCHANGED <<data, args_layout, layout, quantity, routine, total_pages,
                 row, col, card_index, renderer, sorted, i, c, result>>

DrawAlignmentMarkers ==
  /\ pc = "markers"
  /\ c' = Exec(c, draw_alignment_markers, CardCtx(0))
  /\ pc' = "header"
  /\ UNCHANGED <<data, args_layout, layout, quantity, routine, total_pages, page,
                 row, col, card_index, renderer, sorted, i, result>>

DrawHeader ==
  /\ pc = "header"
  /\ c' = Exec(c, draw_header.ops, CardCtx(0))
  /\ renderer' = [renderer EXCEPT !.current_y = @ - draw_header.advance]
  /\ pc' = "items"
  /\ UNCHANGED <<data, args_layout, layout, quantity, routine, total_pages, page,
                 row, col, card_index, sorted, i, result>>

\* _draw_items up to the loop: the items are sorted by 'order'.
BeginItems ==
  /\ pc = "items"
  /\ sorted' = sorted_items(routine.items)
  /\ i' = 1
  /\ pc' = "item"
  /\ UNCHANGED <<data, args_layout, layout, quantity, routine, total_pages, page,
                 row, col, card_index, renderer, c, result>>

InLoop == pc = "item" /\ i <= Len(sorted)
CurrentItem == routine.items[sorted[i]]

\* The for loop has no item left.
ItemsExhausted ==
  /\ pc = "item"
  /\ i > Len(sorted)
  /\ pc' = "version"
  /\ UNCHANGED <<data, args_layout, layout, quantity, routine, total_pages, page,
                 row, col, card_index, renderer, sorted, i, c, result>>

\* current_y < min_y: break.
ItemsBreak ==
  /\ InLoop
  /\ renderer.current_y < min_y
  /\ pc' = "version"
  /\ UNCHANGED <<data, args_layout, layout, quantity, routine, total_pages, page,
                 row, col, card_index, renderer, sorted, i, c, result>>

\* item['type'] raises KeyError.
ItemKeyError ==
  /\ InLoop
  /\ renderer.current_y >= min_y
  /\ ~CurrentItem.hasType
  /\ pc' = "error"
  /\ UNCHANGED <<data, args_layout, layout, quantity, routine, total_pages, page,
                 row, col, card_index, renderer, sorted, i, c, result>>

\* One turn of the loop for an item that has a type.
ItemStep(types) ==
  /\ InLoop
  /\ renderer.current_y >= min_y
  /\ CurrentItem.hasType
  /\ CurrentItem.type \in types
  /\ LET rule == dispatch(CurrentItem)
     IN /\ c' = Exec(c, rule.ops, CardCtx(sorted[i]))
        /\ renderer' = [renderer EXCEPT !.current_y = @ - rule.advance]
  /\ i' = i + 1
  /\ UNCHANGED <<pc, data, args_layout, layout, quantity, routine, total_pages, page,
                 row, col, card_index, sorted, result>>

DrawCheckboxItem == ItemStep({"checkbox"})
DrawNumberItem == ItemStep({"number"})
DrawScaleItem == ItemStep({"scale"})
DrawTextItem == ItemStep({"text"})

\* A type that no branch of the if/elif chain matches.
SkipUnknownItem == ItemStep({s.type : s \in Shapes} \ Kinds)

\* _draw_version, the end of draw(), and card_index += 1 in generate_pdf.
DrawVersion ==
  /\ pc = "version"
  /\ c' = Exec(c, draw_version, CardCtx(0))
  /\ card_index' = card_index + 1
  /\ col' = col + 1
  /\ pc' = "cell"
  /\ UNCHANGED <<data, args_layout, layout, quantity, routine, total_pages, page,
                 row, renderer, sorted, i, result>>

Next ==
  \/ MainKeyError
  \/ Main
  \/ GeneratePdf
  \/ StartPage
  \/ Save
  \/ NewCard
  \/ BreakRow
  \/ EndRow
  \/ EndPage
  \/ DrawAlignmentMarkers
  \/ DrawHeader
  \/ BeginItems
  \/ ItemsExhausted
  \/ ItemsBreak
  \/ ItemKeyError
  \/ DrawCheckboxItem
  \/ DrawNumberItem
  \/ DrawScaleItem
  \/ DrawTextItem
  \/ SkipUnknownItem
  \/ DrawVersion

Spec == Init /\ [][Next]_vars

TypeOK ==
  /\ pc \in {"main", "generate", "page", "cell", "markers", "header", "items",
             "item", "version", "done", "error"}
  /\ layout \in LayoutNames
  /\ card_index \in Nat
  /\ c.fill \in {BLACK, GRAY} /\ c.stroke \in {BLACK, GRAY}

\* ------------------------------------------------- reading the canvas log
Range(s) == {s[k] : k \in 1..Len(s)}

Recognised(item) == item.hasType /\ item.type \in Kinds

\* The cards that have content on the canvas.
CardsDrawn == {e.card : e \in {x \in Range(c.log) : x.card >= 0}}

\* The cards that have content on page p.
CardsOnPage(p) == {e.card : e \in {x \in Range(c.log) : x.card >= 0 /\ x.page = p}}

\* The items drawn on card k, as positions of the input array, in the order
\* of drawing (every item rule writes the item's name exactly once).
NameEntries(k) == SelectSeq(c.log, LAMBDA e : e.card = k /\ e.what = "name")
Drawn(k) == [n \in 1..Len(NameEntries(k)) |-> NameEntries(k)[n].item]

InCard == pc \in {"markers", "header", "items", "item", "version"}

\* The least p with p * n >= q.
Ceil(q, n) == CHOOSE p \in 0..q : p * n >= q /\ (p - 1) * n < q

\* ------------------------------------------------------------------ claims
\* C1: for every layout and every quantity > 0, generate_pdf reports
\* pages_generated = ceil(quantity / (cols * rows)) and cards_generated =
\* quantity; the cards rendered (the final card_index, the version stamps on
\* the canvas) are exactly quantity, and never more at any time; the physical
\* pages produced (1 + showPage calls) are pages_generated.
C1_PagesAndCards ==
  /\ pc \notin {"main", "generate"} =>
       /\ card_index <= quantity
       /\ Cardinality(CardsDrawn) <= quantity
  /\ (pc = "done" /\ quantity > 0) =>
       /\ result.pages_generated = Ceil(quantity, LAYOUTS[layout].cols * LAYOUTS[layout].rows)
       /\ result.cards_generated = quantity
       /\ card_index = quantity
       /\ Len(SelectSeq(c.log, LAMBDA e : e.what = "version")) = quantity
       /\ CardsDrawn = 0..(quantity - 1)
       /\ c.pageNumber = result.pages_generated
       /\ Len(SelectSeq(c.log, LAMBDA e : e.op = "showPage")) + 1 = result.pages_generated

C1_Witness ==
  /\ pc = "done"
  /\ layout = "quarter"
  /\ quantity = 5
  /\ result.pages_generated = 2
  /\ card_index = 5

\* C2: cards go to the grid cells row-major, page by page: card k lies on
\* page k div cardsPerPage, in row (k mod cardsPerPage) div cols and column
\* (k mod cardsPerPage) mod cols; no cell receives content once the counter
\* has reached quantity; at the end every page but the last holds
\* cardsPerPage cards and the last one the remaining ones, as the first
\* cells of the grid.
C2_RowMajorCells ==
  LET cfg == LAYOUTS[layout]
      cpp == cfg.cols * cfg.rows
  IN /\ \A e \in Range(c.log) :
          e.card >= 0 =>
            LET cell == e.card % cpp
            IN /\ e.card < quantity
               /\ e.page = (e.card \div cpp) + 1
               /\ e.at = <<(cell % cfg.cols) * cfg.width,
                           PAGE_HEIGHT - ((cell \div cfg.cols) + 1) * cfg.height>>
     /\ (pc = "done" /\ quantity > 0) =>
          LET tp == Ceil(quantity, cpp)
          IN \A p \in 1..tp :
               CardsOnPage(p) =
                 IF p < tp THEN ((p - 1) * cpp)..(p * cpp - 1)
                 ELSE ((tp - 1) * cpp)..(quantity - 1)

C2_Witness ==
  /\ pc = "done"
  /\ layout = "quarter"
  /\ quantity = 5
  /\ CardsOnPage(1) = 0..3
  /\ CardsOnPage(2) = {4}
  /\ \A e \in Range(c.log) : e.card = 4 => e.at = <<0, 396>>

\* C3: with --layout auto, main uses suggest_layout of the length of the
\* items array: quarter iff n <= 8, half iff 9 <= n <= 15, full iff n > 15;
\* it never fails.
C3_SuggestLayout ==
  (pc \notin {"main", "error"} /\ args_layout = "auto") =>
    LET n == Len(data.items)
    IN /\ (layout = "quarter") <=> (n <= 8)
       /\ (layout = "half") <=> (9 <= n /\ n <= 15)
       /\ (layout = "full") <=> (n > 15)

C3_Witness ==
  /\ pc = "generate"
  /\ args_layout = "auto"
  /\ Len(data.items) = 9
  /\ layout = "half"

\* C4: on every card the items drawn are in ascending 'order' (a missing
\* 'order' counts as 0), items of equal 'order' in their input order, and
\* they are a prefix of the recognised items so ordered: a recognised item
\* that sorts before a drawn item was drawn before it.
C4_AscendingStableOrder ==
  \A k \in 0..card_index :
    LET D == Drawn(k)
        its == routine.items
        Before(a, b) ==
          \/ order_key(its[a]) < order_key(its[b])
          \/ order_key(its[a]) = order_key(its[b]) /\ a < b
    IN /\ \A m, n \in 1..Len(D) : m < n => Before(D[m], D[n])
       /\ \A n \in 1..Len(D) : \A j \in 1..Len(its) :
            (Recognised(its[j]) /\ Before(j, D[n])) => \E m \in 1..(n - 1) : D[m] = j

C4_Witness ==
  /\ pc = "version"
  /\ Len(Drawn(card_index)) >= 3
  /\ Drawn(card_index)[1] = 2
  /\ Drawn(card_index)[2] = 3
  /\ Drawn(card_index)[Len(Drawn(card_index))] = 1

\* C5: when all items are recognised and the sum of their advances
\* (checkbox 26, number 54, scale 54 or 70 with notes, text 54) exceeds the
\* content height (from the cursor after the header down to min_y), fewer
\* items than len(items) are drawn.
C5_Advance(item) ==
  IF item.type = "checkbox" THEN 26
  ELSE IF item.type = "scale" /\ item.hasNotes THEN 70
  ELSE 54

RECURSIVE C5_Sum(_, _)
C5_Sum(its, n) == IF n = 0 THEN 0 ELSE C5_Advance(its[n]) + C5_Sum(its, n - 1)

ContentTop == renderer.y + LAYOUTS[layout].height - MARGIN - 39

C5_OverflowTruncates ==
  (/\ pc = "version"
   /\ \A j \in 1..Len(routine.items) : Recognised(routine.items[j])
   /\ C5_Sum(routine.items, Len(routine.items)) > ContentTop - min_y)
    => Len(Drawn(card_index)) < Len(routine.items)

\* C6: at every item boundary of _draw_items and on entry to _draw_version
\* the canvas's fill colour and stroke colour are both black.
C6_StyleIsolation ==
  pc \in {"item", "version"} => (c.fill = BLACK /\ c.stroke = BLACK)

C6_Witness ==
  /\ pc = "item"
  /\ i = 3
  /\ routine.items[sorted[1]].type = "text"
  /\ routine.items[sorted[2]].type = "scale" /\ routine.items[sorted[2]].hasNotes
  /\ Drawn(card_index) = <<sorted[1], sorted[2]>>

\* C7: an input without 'name', without 'items' or with an item without
\* 'type' ends in an error (here: whenever at least one card is asked for),
\* and the canvas has not been drawn on when the error is raised.
InputInvalid ==
  \/ ~data.hasName
  \/ ~data.hasItems
  \/ \E j \in 1..Len(data.items) : ~data.items[j].hasType

C7_FailFast ==
  /\ pc = "error" => c.log = <<>>
  /\ (pc = "done" /\ quantity > 0) => ~InputInvalid

\* C8: an item whose type is none of the four kinds raises no error, makes
\* no canvas call, leaves current_y and the canvas as they are, and the loop
\* goes on to the next item; the card comes out as if the item were not
\* there: only recognised items are drawn, the cursor has moved by their
\* advances alone, and the loop stopped on nothing but the floor check.
RECURSIVE C8_Sum(_, _, _)
C8_Sum(its, D, n) == IF n = 0 THEN 0 ELSE C5_Advance(its[D[n]]) + C8_Sum(its, D, n - 1)

C8_AsIfAbsent ==
  pc = "version" =>
    LET D == Drawn(card_index)
        its == routine.items
    IN /\ \A n \in 1..Len(D) : Recognised(its[D[n]])
       /\ renderer.current_y = ContentTop - C8_Sum(its, D, Len(D))
       /\ \A n \in 0..(Len(D) - 1) : ContentTop - C8_Sum(its, D, n) >= min_y
       /\ \/ renderer.current_y < min_y
          \/ \A j \in 1..Len(its) : Recognised(its[j]) => \E n \in 1..Len(D) : D[n] = j

C8_Frame ==
  (/\ InLoop
   /\ renderer.current_y >= min_y
   /\ CurrentItem.hasType
   /\ CurrentItem.type \notin Kinds)
    => (/\ pc' = "item"
        /\ i' = i + 1
        /\ c' = c
        /\ renderer' = renderer
        /\ sorted' = sorted)

C8_UnknownKindSkipped == [](C8_AsIfAbsent) /\ [][C8_Frame]_vars

C8_Witness ==
  /\ pc = "version"
  /\ Len(routine.items) = 2
  /\ routine.items[sorted[1]].type = "photo"
  /\ Drawn(card_index) = <<sorted[2]>>
  /\ renderer.current_y = ContentTop - 26

\* C9: every page that was started begins with its page break (all pages but
\* the first), then one run of draw_cut_guides: dash on, cols-1 vertical and
\* rows-1 horizontal dashed lines, dash off; everything after that on the
\* page is card content, drawn solid.  While a card is drawn the dash
\* pattern is solid.
C9_PageLog(p) == SelectSeq(c.log, LAMBDA e : e.page = p)

C9_Shape(e) == <<e.op, e.what, e.dash>>

C9_GuideRun(p) ==
  (IF p > 1 THEN << <<"showPage", "page", FALSE>> >> ELSE <<>>)
    \o << <<"setDash", "dash", TRUE>> >>
    \o Times(LAYOUTS[layout].cols - 1, << <<"line", "vguide", TRUE>> >>)
    \o Times(LAYOUTS[layout].rows - 1, << <<"line", "hguide", TRUE>> >>)
    \o << <<"setDash", "dash", FALSE>> >>

C9_CutGuidesFirst ==
  /\ InCard => ~c.dash
  /\ c.log # <<>> =>
       \A p \in 1..c.pageNumber :
         LET E == C9_PageLog(p)
             G == C9_GuideRun(p)
         IN /\ Len(E) >= Len(G)
            /\ \A n \in 1..Len(G) : C9_Shape(E[n]) = G[n] /\ E[n].card = -1
            /\ \A n \in (Len(G) + 1)..Len(E) :
                 /\ E[n].card >= 0
                 /\ E[n].op \in Marks
                 /\ E[n].what \notin {"vguide", "hguide"}
                 /\ ~E[n].dash

C9_Witness ==
  /\ pc = "done"
  /\ layout = "quarter"
  /\ quantity = 5
  /\ c.pageNumber = 2
  /\ Len(SelectSeq(c.log, LAMBDA e : e.page = 2 /\ e.what = "vguide")) = 1
  /\ Len(SelectSeq(c.log, LAMBDA e : e.page = 2 /\ e.what = "hguide")) = 1
  /\ CardsOnPage(2) = {4}

\* C10: while a card is rendered the cursor current_y never lies below
\* min_y = card bottom + MARGIN + 20.
C10_CursorAboveFloor ==
  InCard => renderer.current_y >= min_y

====
